---- MODULE Spec2Model ----
(***************************************************************************)
(* Model of the import-job engine: the persisted Job records               *)
(* (models/Job.js), the scheduler loop of services/jobProcessor.js, the    *)
(* per-item pipeline MetService.processArtwork (services/metService.js)    *)
(* and the pause / resume / cancel routes of routes/jobRoutes.js.          *)
(*                                                                         *)
(* A Job document lives twice: as the record stored in the database (db)   *)
(* and as the copy a handler loaded with find / findById (doc, req.doc).   *)
(* save() writes back the paths of the copy that were modified since it    *)
(* was loaded or last saved, and nothing else; the copy is never refreshed *)
(* from the database.                                                      *)
(***************************************************************************)
EXTENDS Integers, Sequences, FiniteSets, TLC

(* ---------------- bounds ---------------- *)
NumJobs == 1          \* jobs that are ever created
NumIds == 2           \* distinct catalog ids
MaxFound == 2         \* longest id list a search returns
MaxItemsOpt == 1      \* largest options.maxItems that is submitted
MaxRequests == 2      \* pause / resume / cancel requests that are ever made
MaxTime == 1          \* clock ticks
MaxRetryAfter == 1    \* largest retry delay (seconds) a throttling signal carries
NumQueued == 2        \* jobs that are created where the order of selection is checked
MaxQueueRequests == 1 \* requests that are made while several jobs are in the store
MaxStartCalls == 3    \* calls of JobProcessor.start() that are ever made
MaxGovTime == 3000    \* last instant (ms) at which the rate limit manager is called
NumOrdered == 3       \* ids of the job whose order of attempts is followed
MaxCandidates == 22   \* candidate ids handed to postFilterResults

Jobs == 1..NumJobs
Ids == 1..NumIds
NoTime == 0 - 1       \* an unset Date field
NoJob == 0            \* this.currentJob === null

RECURSIVE SeqsUpTo(_, _)
SeqsUpTo(S, n) ==
  IF n = 0 THEN {<<>>}
  ELSE LET shorter == SeqsUpTo(S, n - 1)
       IN shorter \cup {Append(s, x) : s \in {t \in shorter : Len(t) = n - 1}, x \in S}

IdLists == SeqsUpTo(Ids, MaxFound)

Range(s) == {s[k] : k \in 1..Len(s)}

SubSeqTo(s, n) == [k \in 1..n |-> s[k]]

(* ---------------- state ---------------- *)
VARIABLES
  db,        \* sequence of persisted Job records, in creation order
  now,       \* Date.now()
  pc,        \* where the scheduler loop (processJobs) stands
  cur,       \* index in db of the job the scheduler holds, or NoJob
  doc,       \* the scheduler's in-memory document of that job
  idx,       \* loop variable i of processJob
  req,       \* the route handler in flight
  nreq,      \* requests made so far
  last,      \* what the pipeline's collaborators answered for the last item
  hist,      \* per job: who wrote status last, appends since a pause request
  gov,       \* a RateLimitManager: its limits, and what its last call answered
  proc,      \* the JobProcessor: isRunning and the processJobs calls made
  routeGov,  \* the RateLimitManager of the MetService that metRoutes.js builds
  filter     \* a call of postFilterResults: the candidates and where it stands

vars == <<db, now, pc, cur, doc, idx, req, nreq, last, hist, gov, proc, routeGov, filter>>

(* ---------------- models/Job.js ---------------- *)
NewJob(opts, t) ==
  [ status |-> "pending",
    options |-> opts,
    progress |-> 0,
    objectIds |-> <<>>,
    processedIds |-> <<>>,
    failedIds |-> <<>>,
    totalObjects |-> 0,
    results |-> <<>>,
    pauseReason |-> "null",
    resumeAfter |-> NoTime,
    error |-> "",
    createdAt |-> t,
    completedAt |-> NoTime ]

NoDoc == NewJob([maxItems |-> 0, skipShopifyUpload |-> FALSE], NoTime)

Options == [maxItems : 0..MaxItemsOpt, skipShopifyUpload : BOOLEAN]

\* Math.round(x / y) for x >= 0, y > 0: halves go up
Round(x, y) == (2 * x + y) \div (2 * y)

\* calculateProgress with a fault: progress is computed before the id is pushed
calculateProgressBeforePush(d) ==
  IF d.totalObjects = 0 THEN 0
  ELSE Round((Len(d.processedIds) - 1) * 100, d.totalObjects)

calculateProgress(d) ==
  IF d.totalObjects = 0 THEN 0
  ELSE Round(Len(d.processedIds) * 100, d.totalObjects)

\* the assignments of updateStatus, before its save()
updateStatus(d, status, reason, t) ==
  LET d1 == [d EXCEPT !.status = status]
      d2 == IF status = "paused"
            THEN [d1 EXCEPT !.pauseReason = reason,
                            !.resumeAfter = IF reason = "rate_limit" THEN t + 60 ELSE @]
            ELSE d1
  IN IF status = "completed" THEN [d2 EXCEPT !.completedAt = t] ELSE d2

\* document.save() with a fault: the path results is never written
SavedWithoutResults(stored, d, s) ==
  [f \in DOMAIN stored |->
     IF f \in DOMAIN d /\ f # "results" /\ d[f] # s[f] THEN d[f] ELSE stored[f]]

\* document.save(): the modified paths of d (against s, the document as it was
\* loaded or last saved) overwrite the stored record
Saved(stored, d, s) ==
  [f \in DOMAIN stored |->
     IF f \in DOMAIN d /\ d[f] # s[f] THEN d[f] ELSE stored[f]]

\* the paths of a loaded document that the route handlers read or assign
RoutePaths == {"status", "pauseReason", "resumeAfter", "completedAt", "error"}

Loaded(r) == [f \in RoutePaths |-> r[f]]

(* ---------------- services/metService.js: the per-item pipeline ---------------- *)
\* What the collaborators answer during one processArtwork call.
\*   fetch:   getObjectDetails -- "throttled" is checkRateLimits throwing,
\*            "not_found" any failure of the request, "not_eligible" a record
\*            that is not public domain or has no primary image
\*   image:   downloadImage
\*   gen:     openai.generateDescriptions (its own catch falls back to a
\*            synthesized description, so it never throws)
\*   derive:  parseInt / getEraCollections / getThemeCollections on the record
\*   publish: shopify.uploadArtwork -- "throttled" is its checkRateLimits throwing
\*   retryAfter: the delay a throttling signal carries
PipelineEnv ==
  [ fetch : {"ok", "not_found", "not_eligible", "throttled"},
    image : {"ok", "fail"},
    gen : {"ok", "error", "throttled"},
    derive : {"ok", "throws"},
    publish : {"ok", "throws", "throttled"},
    retryAfter : 1..MaxRetryAfter ]

NullResult ==
  [isNull |-> TRUE, objectId |-> 0, processed |-> FALSE, error |-> "", shopifyProductId |-> ""]

\* getObjectDetails: every error, the throttling signal included, is caught
\* and answered with null
getObjectDetails(env) ==
  IF env.fetch \in {"not_found", "throttled"} THEN "null"
  ELSE IF env.fetch = "not_eligible" THEN "not_eligible" ELSE "artwork"

\* processArtwork with a fault: a failed upload ends the call like a failed
\* download, with null
processArtworkDropsFailedUpload(objectId, options, env) ==
  IF getObjectDetails(env) # "artwork" THEN NullResult
  ELSE IF env.image = "fail" THEN NullResult
  ELSE IF env.derive = "throws"
    THEN [isNull |-> FALSE, objectId |-> objectId, processed |-> FALSE,
          error |-> "error", shopifyProductId |-> ""]
  ELSE IF options.skipShopifyUpload
    THEN [isNull |-> FALSE, objectId |-> objectId, processed |-> TRUE,
          error |-> "", shopifyProductId |-> ""]
  ELSE IF env.publish = "ok"
    THEN [isNull |-> FALSE, objectId |-> objectId, processed |-> TRUE,
          error |-> "", shopifyProductId |-> "product"]
  ELSE NullResult

\* the value processArtwork returns; it has no path that throws
processArtwork(objectId, options, env) ==
  IF getObjectDetails(env) # "artwork" THEN NullResult
  ELSE IF env.image = "fail" THEN NullResult
  ELSE IF env.derive = "throws"
    THEN [isNull |-> FALSE, objectId |-> objectId, processed |-> FALSE,
          error |-> "error", shopifyProductId |-> ""]
  ELSE IF options.skipShopifyUpload
    THEN [isNull |-> FALSE, objectId |-> objectId, processed |-> TRUE,
          error |-> "", shopifyProductId |-> ""]
  ELSE IF env.publish = "ok"
    THEN [isNull |-> FALSE, objectId |-> objectId, processed |-> TRUE,
          error |-> "", shopifyProductId |-> "product"]
  ELSE [isNull |-> FALSE, objectId |-> objectId, processed |-> TRUE,
        error |-> "Shopify upload failed", shopifyProductId |-> ""]

\* which steps of the pipeline are reached under env
ReachedImage(env) == env.fetch = "ok"
ReachedGen(env) == ReachedImage(env) /\ env.image = "ok"
ReachedDerive(env) == ReachedGen(env)
ReachedPublish(options, env) ==
  ReachedDerive(env) /\ env.derive = "ok" /\ ~options.skipShopifyUpload

\* the first collaborator that signalled throttling during the call
ThrottledBy(options, env) ==
  IF env.fetch = "throttled" THEN "catalog"
  ELSE IF ReachedGen(env) /\ env.gen = "throttled" THEN "generator"
  ELSE IF ReachedPublish(options, env) /\ env.publish = "throttled" THEN "storefront"
  ELSE "none"

NoLast ==
  [job |-> NoJob, id |-> 0, throttledBy |-> "none", retryAfter |-> 0,
   itemError |-> FALSE, publishThrew |-> FALSE,
   primary |-> "none", fallback |-> "none", found |-> 0, fetch |-> "none"]

Observed(j, objectId, options, env) ==
  LET by == ThrottledBy(options, env)
  IN [job |-> j, id |-> objectId, throttledBy |-> by,
      retryAfter |-> IF by = "none" THEN 0 ELSE env.retryAfter,
      itemError |-> ReachedDerive(env) /\ env.derive = "throws",
      publishThrew |-> ReachedPublish(options, env) /\ env.publish = "throws",
      primary |-> "none", fallback |-> "none", found |-> 0, fetch |-> env.fetch]

(* ---------------- services/rateLimitManager.js ---------------- *)
\* constructor: the limits table (openai is metered in tokens)
limits ==
  [ met     |-> [requests |-> 80, period |-> 60 * 1000],
    openai  |-> [tokens |-> 10000, period |-> 60 * 1000],
    shopify |-> [requests |-> 2, period |-> 1 * 1000] ]

CountMetered == {"met", "shopify"}

\* constructor: the mutable part of one entry of this.limits
NewLimit == [current |-> 0, resetAt |-> NoTime, rateLimited |-> FALSE, resumeAt |-> NoTime]

\* Math.ceil(ms / 1000) for ms >= 0
CeilSeconds(ms) == (ms + 999) \div 1000

\* setRateLimited with a fault: the flag is held for twice the duration
setRateLimitedTwice(l, duration, t) ==
  [l EXCEPT !.rateLimited = TRUE, !.resumeAt = t + duration + duration]

\* setRateLimited(service, duration) at time t
setRateLimited(l, duration, t) ==
  [l EXCEPT !.rateLimited = TRUE, !.resumeAt = t + duration]

\* line 83 with a fault: the budget is compared with > instead of >=
ExhaustedOffByOne(l, service) == l.current > limits[service].requests

\* line 83: limit.current >= limit.requests
Exhausted(l, service) == l.current >= limits[service].requests

\* checkRateLimit with a fault: a call refused on an exhausted budget is
\* counted too
checkRateLimitCountsRefused(l, service, t) ==
  IF l.rateLimited /\ t < l.resumeAt
  THEN [limit |-> l, ok |-> FALSE, retryAfter |-> CeilSeconds(l.resumeAt - t)]
  ELSE LET l1 == IF l.rateLimited
                 THEN [l EXCEPT !.rateLimited = FALSE, !.resumeAt = NoTime] ELSE l
           l2 == IF l1.resetAt # NoTime /\ t > l1.resetAt
                 THEN [l1 EXCEPT !.current = 0, !.resetAt = NoTime] ELSE l1
           l3 == IF l2.resetAt = NoTime
                 THEN [l2 EXCEPT !.resetAt = t + limits[service].period] ELSE l2
       IN IF service = "openai"
          THEN [limit |-> l3, ok |-> TRUE, retryAfter |-> 0]
          ELSE IF Exhausted(l3, service)
          THEN [limit |-> setRateLimited([l3 EXCEPT !.current = @ + 1],
                                         limits[service].period, t), ok |-> FALSE,
                retryAfter |-> CeilSeconds(limits[service].period)]
          ELSE [limit |-> [l3 EXCEPT !.current = @ + 1], ok |-> TRUE, retryAfter |-> 0]

\* checkRateLimit(service) at time t on entry l: the entry it leaves, whether
\* it returned (ok) or threw RATE_LIMIT_EXCEEDED, and the retryAfter thrown
checkRateLimit(l, service, t) ==
  IF l.rateLimited /\ t < l.resumeAt
  THEN [limit |-> l, ok |-> FALSE, retryAfter |-> CeilSeconds(l.resumeAt - t)]
  ELSE LET l1 == IF l.rateLimited
                 THEN [l EXCEPT !.rateLimited = FALSE, !.resumeAt = NoTime] ELSE l
           l2 == IF l1.resetAt # NoTime /\ t > l1.resetAt
                 THEN [l1 EXCEPT !.current = 0, !.resetAt = NoTime] ELSE l1
           l3 == IF l2.resetAt = NoTime
                 THEN [l2 EXCEPT !.resetAt = t + limits[service].period] ELSE l2
       IN IF service = "openai"
          THEN [limit |-> l3, ok |-> TRUE, retryAfter |-> 0]
          ELSE IF Exhausted(l3, service)
          THEN [limit |-> setRateLimited(l3, limits[service].period, t), ok |-> FALSE,
                retryAfter |-> CeilSeconds(limits[service].period)]
          ELSE [limit |-> [l3 EXCEPT !.current = @ + 1], ok |-> TRUE, retryAfter |-> 0]

\* history of one service: the window that the first successful call after
\* the previous window opened, the successful calls in it, and what armed
\* the throttled flag, when, and in which window
\* until is the latest end, time of call plus duration, of the setRateLimited
\* calls made from outside since the last successful call
NoGovHist ==
  [windowStart |-> NoTime, okCount |-> 0, armedBy |-> "none", armedAt |-> NoTime,
   armedIn |-> NoTime, until |-> NoTime]

\* the last call made: op is check or set, at its time, was what had armed
\* the flag before it
NoGovLast ==
  [op |-> "none", service |-> "none", at |-> NoTime, ok |-> FALSE, retryAfter |-> 0,
   was |-> "none"]

\* each service object builds a manager of its own and calls it for its own
\* service only; owner is that service, none before the first call
NoGov ==
  [ owner |-> "none",
    svc  |-> [s \in CountMetered |-> NewLimit],
    hist |-> [s \in CountMetered |-> NoGovHist],
    last |-> NoGovLast ]

\* routes/metRoutes.js line 7 constructs a MetService of its own, and with it
\* a RateLimitManager of its own: met is that manager's entry for the Met
\* API. windowStart and okCount are history: the successful checkRateLimit(met)
\* calls of the whole process, by either manager, in the window of one period
\* that the first of them opened.
NoRouteGov ==
  [met |-> NewLimit, windowStart |-> NoTime, okCount |-> 0]

\* no call of postFilterResults is under way.  Of a call: n is the number of
\* candidate ids it was given, i the candidates examined so far (in the
\* order of the list), matched the ids pushed to filteredIds, lastPushed the
\* position of the last id pushed
NoFilter ==
  [pc |-> "none", n |-> 0, i |-> 0, matched |-> 0, lastPushed |-> 0]

(* ---------------- services/jobProcessor.js: start and stop ---------------- *)
\* constructor, lines 6-11: isRunning false, no processJobs call made yet;
\* loops holds the position of every processJobs call, calls counts start()
Constructed == [isRunning |-> FALSE, loops |-> <<>>, calls |-> 0]

\* after server.js called start(): the one loop whose position is pc
Started == [isRunning |-> TRUE, loops |-> <<"loop">>, calls |-> 1]

(* ---------------- initial state ---------------- *)
NoReq == [kind |-> "none", job |-> NoJob, doc |-> Loaded(NoDoc), step |-> "none"]

\* history of one job: who changed status last, results appended since a
\* pause request, and how many leading positions of objectIds the item loop
\* has handled so far (called processArtwork on, or passed over); published
\* lists the ids for which shopify.uploadArtwork was called, in call order
NoHist == [statusBy |-> "none", sincePause |-> 0 - 1, reached |-> 0, published |-> <<>>]

Reached(j, position) ==
  [hist EXCEPT ![j].reached = IF position > @ THEN position ELSE @]

Init ==
  /\ db = <<>>
  /\ now = 0
  /\ pc = "poll"
  /\ cur = NoJob
  /\ doc = NoDoc
  /\ idx = 0
  /\ req = NoReq
  /\ nreq = 0
  /\ last = NoLast
  /\ hist = [j \in Jobs |-> NoHist]
  /\ gov = NoGov
  /\ routeGov = NoRouteGov
  /\ filter = NoFilter
  /\ proc = Started

(* ---------------- environment ---------------- *)
Tick ==
  /\ now < MaxTime
  /\ now' = now + 1
  /\ UNCHANGED <<filter, gov, routeGov, proc, db, pc, cur, doc, idx, req, nreq, last, hist>>

\* routes/jobRoutes.js, POST /url and POST /category: a new record in pending
CreateJob ==
  /\ Len(db) < NumJobs
  /\ \E opts \in Options : db' = Append(db, NewJob(opts, now))
  /\ UNCHANGED <<filter, gov, routeGov, proc, now, pc, cur, doc, idx, req, nreq, last, hist>>

(* ---------------- services/jobProcessor.js: the scheduler ---------------- *)
\* the filter of getNextJob with a fault: initialized is not among the statuses
EligibleWithoutInitialized(r, t) ==
  \/ r.status = "pending"
  \/ /\ r.status = "paused"
     /\ r.pauseReason = "rate_limit"
     /\ r.resumeAfter # NoTime
     /\ r.resumeAfter <= t

\* the filter of getNextJob's Job.find
Eligible(r, t) ==
  \/ r.status = "pending"
  \/ r.status = "initialized"
  \/ /\ r.status = "paused"
     /\ r.pauseReason = "rate_limit"
     /\ r.resumeAfter # NoTime
     /\ r.resumeAfter <= t

\* getNextJob with a fault: the sort is descending
IsNextJobNewest(j) ==
  /\ j \in 1..Len(db)
  /\ Eligible(db[j], now)
  /\ \A k \in 1..Len(db) : Eligible(db[k], now) => db[j].createdAt >= db[k].createdAt

\* .sort({ createdAt: 1 }) and jobs[0]: an eligible record of least createdAt
IsNextJob(j) ==
  /\ j \in 1..Len(db)
  /\ Eligible(db[j], now)
  /\ \A k \in 1..Len(db) : Eligible(db[k], now) => db[j].createdAt <= db[k].createdAt

\* history: a save of d (loaded or last saved as s) by who
Wrote(j, who, d, s) ==
  [hist EXCEPT ![j].statusBy = IF d.status # s.status THEN who ELSE @]

\* lines 44-47 with a fault: an initialized job is initialized again
SelectJobInitializesAgain ==
  /\ pc = "poll"
  /\ \E j \in 1..Len(db) :
       /\ IsNextJob(j)
       /\ LET job == db[j]
              due == job.pauseReason = "rate_limit" /\ job.resumeAfter # NoTime
                     /\ now >= job.resumeAfter
              target == IF job.status \in {"pending", "initialized"} THEN "init"
                        ELSE IF job.status = "paused" /\ due THEN "resume"
                        ELSE "poll"
          IN /\ pc' = target
             /\ cur' = IF target = "poll" THEN NoJob ELSE j
             /\ doc' = IF target = "poll" THEN NoDoc ELSE job
             /\ last' = NoLast
             /\ UNCHANGED <<filter, gov, routeGov, proc, db, now, idx, req, nreq, hist>>

\* processJobs, one iteration up to the dispatch on job.status
SelectJob ==
  /\ pc = "poll"
  /\ \E j \in 1..Len(db) :
       /\ IsNextJob(j)
       /\ LET job == db[j]
              due == job.pauseReason = "rate_limit" /\ job.resumeAfter # NoTime
                     /\ now >= job.resumeAfter
              target == IF job.status = "pending" THEN "init"
                        ELSE IF job.status = "initialized" THEN "begin"
                        ELSE IF job.status = "paused" /\ due THEN "resume"
                        ELSE "poll"
          IN /\ pc' = target
             /\ cur' = IF target = "poll" THEN NoJob ELSE j
             /\ doc' = IF target = "poll" THEN NoDoc ELSE job
             /\ last' = NoLast
             /\ UNCHANGED <<filter, gov, routeGov, proc, db, now, idx, req, nreq, hist>>

\* initializeJob, lines 98-101: status is set to processing and saved
InitBegin ==
  /\ pc = "init"
  /\ doc' = [doc EXCEPT !.status = "processing"]
  /\ db' = [db EXCEPT ![cur] = Saved(@, doc', doc)]
  /\ hist' = Wrote(cur, "scheduler", doc', doc)
  /\ pc' = "search"
  /\ UNCHANGED <<filter, gov, routeGov, proc, now, cur, idx, req, nreq, last>>

\* lines 191-194 with a fault: the list is never cut
limitItemsNever(objectIds, maxItems) == objectIds

\* options.maxItems as applied by initializeJob, lines 191-194
limitItems(objectIds, maxItems) ==
  IF maxItems > 0 /\ Len(objectIds) > maxItems
  THEN SubSeqTo(objectIds, maxItems) ELSE objectIds

\* what the catalog answers one search call: an error (any failure of the
\* request, a throttled budget included) or a list of ids
SearchAnswers == [fails : BOOLEAN, ids : IdLists]

\* metService.searchObjects, lines 38-96: the catch logs the error and
\* returns [], so a failed call yields the same value as an empty result
searchObjects(answer) == IF answer.fails THEN <<>> ELSE answer.ids

AnswerKind(answer) ==
  IF answer.fails THEN "error" ELSE IF Len(answer.ids) = 0 THEN "empty" ELSE "found"

\* lines 176-189 with a fault: the broad search is not made
findObjectIdsNoFallback(primary, fallback) ==
  [objectIds |-> searchObjects(primary), fallback |-> "none"]

\* initializeJob, lines 103-189: the search for the job's query and, when it
\* yields no id, the one broad search; fallback tells what that call answered
findObjectIds(primary, fallback) ==
  IF Len(searchObjects(primary)) = 0
  THEN [objectIds |-> searchObjects(fallback), fallback |-> AnswerKind(fallback)]
  ELSE [objectIds |-> searchObjects(primary), fallback |-> "none"]

\* initializeJob, lines 103-200: the searches, the maxItems limit and the
\* save of objectIds, totalObjects and status initialized
InitSearch ==
  /\ pc = "search"
  /\ \E primary \in SearchAnswers, fallback \in SearchAnswers :
       LET found == findObjectIds(primary, fallback)
           objectIds == limitItems(found.objectIds, doc.options.maxItems)
           d == [doc EXCEPT !.objectIds = objectIds,
                            !.totalObjects = Len(objectIds),
                            !.status = "initialized"]
       IN /\ db' = [db EXCEPT ![cur] = Saved(@, d, doc)]
          /\ hist' = Wrote(cur, "scheduler", d, doc)
          /\ last' = [NoLast EXCEPT !.job = cur, !.primary = AnswerKind(primary),
                                    !.fallback = found.fallback,
                                    !.found = Len(found.objectIds)]
  /\ pc' = "poll"
  /\ cur' = NoJob
  /\ doc' = NoDoc
  /\ idx' = 0
  /\ UNCHANGED <<filter, gov, routeGov, proc, now, req, nreq>>

\* processJobs, lines 50-54: a due rate-limit pause is lifted
ResumeDue ==
  /\ pc = "resume"
  /\ doc' = updateStatus(doc, "initialized", "null", now)
  /\ db' = [db EXCEPT ![cur] = Saved(@, doc', doc)]
  /\ hist' = Wrote(cur, "scheduler", doc', doc)
  /\ pc' = "begin"
  /\ UNCHANGED <<filter, gov, routeGov, proc, now, cur, idx, req, nreq, last>>

\* processJob, lines 213-218: status processing is saved, i starts at
\* processedIds.length
ProcBegin ==
  /\ pc = "begin"
  /\ doc' = [doc EXCEPT !.status = "processing"]
  /\ db' = [db EXCEPT ![cur] = Saved(@, doc', doc)]
  /\ hist' = Wrote(cur, "scheduler", doc', doc)
  /\ idx' = Len(doc.processedIds)
  /\ pc' = "loop"
  /\ UNCHANGED <<filter, gov, routeGov, proc, now, cur, req, nreq, last>>

\* the test of line 225 with a fault: it never finds the id
AlreadyProcessedNever(d, objectId) == FALSE

\* processJob, line 225: job.processedIds.includes(objectId)
AlreadyProcessed(d, objectId) == objectId \in Range(d.processedIds)

\* processJob, lines 224-228: an id already in processedIds is passed over
ItemAlreadyProcessed ==
  /\ pc = "loop"
  /\ idx < Len(doc.objectIds)
  /\ AlreadyProcessed(doc, doc.objectIds[idx + 1])
  /\ idx' = idx + 1
  /\ last' = NoLast
  /\ hist' = Reached(cur, idx + 1)
  /\ UNCHANGED <<filter, gov, routeGov, proc, db, now, pc, cur, doc, req, nreq>>

\* line 231 with a fault: processArtwork is called without the test of line 225
ItemBeginAnyId ==
  /\ pc = "loop"
  /\ idx < Len(doc.objectIds)
  /\ pc' = "item"
  /\ last' = NoLast
  /\ hist' = Reached(cur, idx + 1)
  /\ UNCHANGED <<filter, gov, routeGov, proc, db, now, cur, doc, idx, req, nreq>>

\* processJob, line 231: processArtwork is called and awaited
ItemBegin ==
  /\ pc = "loop"
  /\ idx < Len(doc.objectIds)
  /\ ~AlreadyProcessed(doc, doc.objectIds[idx + 1])
  /\ pc' = "item"
  /\ last' = NoLast
  /\ hist' = Reached(cur, idx + 1)
  /\ UNCHANGED <<filter, gov, routeGov, proc, db, now, cur, doc, idx, req, nreq>>

\* lines 233-241 with a fault: a null result is pushed like any other
RecordedAlsoForNull(d, objectId, result) ==
  LET stored == [objectId |-> result.objectId, processed |-> result.processed,
                 error |-> result.error,
                 shopifyProductId |-> result.shopifyProductId]
      d1 == [d EXCEPT !.results = Append(@, stored),
                      !.processedIds = Append(@, objectId)]
  IN [d1 EXCEPT !.progress = calculateProgress(d1)]

\* the document after lines 233-241 for the value processArtwork returned
Recorded(d, objectId, result) ==
  IF result.isNull THEN d
  ELSE LET stored == [objectId |-> result.objectId, processed |-> result.processed,
                      error |-> result.error,
                      shopifyProductId |-> result.shopifyProductId]
           d1 == [d EXCEPT !.results = Append(@, stored),
                           !.processedIds = Append(@, objectId)]
       IN [d1 EXCEPT !.progress = calculateProgress(d1)]

\* processJob, lines 231-265: processArtwork returns, a result is pushed with
\* its id, progress is recomputed and the document saved.  processArtwork
\* never throws, so the catch of lines 242-261 is not entered from it.
ItemEnd ==
  /\ pc = "item"
  /\ \E env \in PipelineEnv :
       LET objectId == doc.objectIds[idx + 1]
           result == processArtwork(objectId, doc.options, env)
       IN /\ doc' = Recorded(doc, objectId, result)
          /\ last' = Observed(cur, objectId, doc.options, env)
          /\ hist' = [hist EXCEPT ![cur].sincePause =
                        IF @ >= 0 /\ ~result.isNull THEN @ + 1 ELSE @,
                                  ![cur].published =
                        IF ReachedPublish(doc.options, env) THEN Append(@, objectId) ELSE @]
  /\ db' = [db EXCEPT ![cur] = Saved(@, doc', doc)]
  /\ idx' = idx + 1
  /\ pc' = "loop"
  /\ UNCHANGED <<filter, gov, routeGov, proc, now, cur, req, nreq>>

\* lines 267-270 with a fault: the loop is left one position early
ProcEndEarly ==
  /\ pc = "loop"
  /\ idx + 1 >= Len(doc.objectIds)
  /\ LET d == [doc EXCEPT !.status = "completed", !.completedAt = now]
     IN /\ db' = [db EXCEPT ![cur] = Saved(@, d, doc)]
        /\ hist' = Wrote(cur, "scheduler", d, doc)
  /\ pc' = "poll"
  /\ cur' = NoJob
  /\ doc' = NoDoc
  /\ idx' = 0
  /\ last' = NoLast
  /\ UNCHANGED <<filter, gov, routeGov, proc, now, req, nreq>>

\* processJob, lines 267-270: the loop is over
ProcEnd ==
  /\ pc = "loop"
  /\ idx >= Len(doc.objectIds)
  /\ LET d == [doc EXCEPT !.status = "completed", !.completedAt = now]
     IN /\ db' = [db EXCEPT ![cur] = Saved(@, d, doc)]
        /\ hist' = Wrote(cur, "scheduler", d, doc)
  /\ pc' = "poll"
  /\ cur' = NoJob
  /\ doc' = NoDoc
  /\ idx' = 0
  /\ last' = NoLast
  /\ UNCHANGED <<filter, gov, routeGov, proc, now, req, nreq>>

SchedulerStep ==
  \/ SelectJob \/ InitBegin \/ InitSearch \/ ResumeDue \/ ProcBegin
  \/ ItemAlreadyProcessed \/ ItemBegin \/ ItemEnd \/ ProcEnd

(* ---------------- routes/jobRoutes.js: pause, resume, cancel ---------------- *)
\* Job.findById of POST /:id/pause, /:id/resume or /:id/cancel
ReqLoad ==
  /\ req.kind = "none"
  /\ nreq < MaxRequests
  /\ nreq' = nreq + 1
  /\ \E kind \in {"pause", "resume", "cancel"}, j \in 1..Len(db) :
       req' = [kind |-> kind, job |-> j, doc |-> Loaded(db[j]), step |-> "loaded"]
  /\ UNCHANGED <<filter, gov, routeGov, proc, db, now, pc, cur, doc, idx, last, hist>>

\* the handler answers 400 and writes nothing; step rejected records that
\* answer until the next request
ReqReject ==
  /\ req.step = "loaded"
  /\ \/ req.kind = "pause" /\ req.doc.status \notin {"processing", "initialized"}
     \/ req.kind = "resume" /\ req.doc.status # "paused"
     \/ req.kind = "cancel" /\ req.doc.status \in {"completed", "failed"}
  /\ req' = [NoReq EXCEPT !.step = "rejected"]
  /\ UNCHANGED <<filter, gov, routeGov, proc, db, now, pc, cur, doc, idx, nreq, last, hist>>

\* lines 120-122 with a fault: the status is not tested
ReqPauseAnyStatus ==
  /\ req.kind = "pause" /\ req.step = "loaded"
  /\ LET d == updateStatus(req.doc, "paused", "user", now)
     IN /\ db' = [db EXCEPT ![req.job] = Saved(@, d, req.doc)]
        /\ hist' = [Wrote(req.job, "request", d, req.doc) EXCEPT
                      ![req.job].sincePause = IF req.doc.status = "processing" THEN 0 ELSE @]
  /\ req' = NoReq
  /\ UNCHANGED <<filter, gov, routeGov, proc, now, pc, cur, doc, idx, nreq, last>>

\* POST /:id/pause, lines 120-122
ReqPause ==
  /\ req.kind = "pause" /\ req.step = "loaded"
  /\ req.doc.status \in {"processing", "initialized"}
  /\ LET d == updateStatus(req.doc, "paused", "user", now)
     IN /\ db' = [db EXCEPT ![req.job] = Saved(@, d, req.doc)]
        /\ hist' = [Wrote(req.job, "request", d, req.doc) EXCEPT
                      ![req.job].sincePause = IF req.doc.status = "processing" THEN 0 ELSE @]
  /\ req' = NoReq
  /\ UNCHANGED <<filter, gov, routeGov, proc, now, pc, cur, doc, idx, nreq, last>>

\* POST /:id/resume, lines 139-141
ReqResume ==
  /\ req.kind = "resume" /\ req.step = "loaded"
  /\ req.doc.status = "paused"
  /\ LET d == updateStatus(req.doc, "initialized", "null", now)
     IN /\ db' = [db EXCEPT ![req.job] = Saved(@, d, req.doc)]
        /\ hist' = [Wrote(req.job, "request", d, req.doc) EXCEPT ![req.job].sincePause = 0 - 1]
  /\ req' = NoReq
  /\ UNCHANGED <<filter, gov, routeGov, proc, now, pc, cur, doc, idx, nreq, last>>

\* POST /:id/cancel, lines 158-159: updateStatus('failed', 'user') and its save
ReqCancel ==
  /\ req.kind = "cancel" /\ req.step = "loaded"
  /\ req.doc.status \notin {"completed", "failed"}
  /\ LET d == updateStatus(req.doc, "failed", "user", now)
     IN /\ db' = [db EXCEPT ![req.job] = Saved(@, d, req.doc)]
        /\ hist' = Wrote(req.job, "request", d, req.doc)
        /\ req' = [req EXCEPT !.doc = d, !.step = "failed"]
  /\ UNCHANGED <<filter, gov, routeGov, proc, now, pc, cur, doc, idx, nreq, last>>

\* POST /:id/cancel, lines 160-161: the error text and the second save
ReqCancelError ==
  /\ req.kind = "cancel" /\ req.step = "failed"
  /\ LET d == [req.doc EXCEPT !.error = "Cancelled by user"]
     IN db' = [db EXCEPT ![req.job] = Saved(@, d, req.doc)]
  /\ req' = NoReq
  /\ UNCHANGED <<filter, gov, routeGov, proc, now, pc, cur, doc, idx, nreq, last, hist>>

RequestStep ==
  \/ ReqLoad \/ ReqReject \/ ReqPause \/ ReqResume \/ ReqCancel \/ ReqCancelError

(* ---------------- specification ---------------- *)
\* ResumeDue is left out: no record is paused for rate_limit in a behaviour
\* that starts from an empty store (NoRateLimitPause below), so it is never
\* enabled; SpecStored has it
Next ==
  \/ Tick \/ CreateJob
  \/ SelectJob \/ InitBegin \/ InitSearch \/ ProcBegin
  \/ ItemAlreadyProcessed \/ ItemBegin \/ ItemEnd \/ ProcEnd
  \/ ReqLoad \/ ReqReject \/ ReqPause \/ ReqResume \/ ReqCancel \/ ReqCancelError

Spec == Init /\ [][Next]_vars

\* processArtwork never throws, so lines 246-254 of processJob never run
NoRateLimitPause ==
  \A j \in 1..Len(db) : db[j].pauseReason # "rate_limit" /\ db[j].resumeAfter = NoTime

TypeOK ==
  /\ Len(db) <= NumJobs
  /\ now \in 0..MaxTime
  /\ pc \in {"poll", "init", "search", "resume", "begin", "loop", "item", "stopped"}
  /\ cur \in {NoJob} \cup (1..Len(db))
  /\ (pc = "poll") = (cur = NoJob)
  /\ \A j \in 1..Len(db) :
       /\ db[j].status \in {"pending", "initializing", "initialized", "processing",
                            "paused", "completed", "failed"}
       /\ db[j].pauseReason \in {"null", "user", "rate_limit", "error"}

(* ======================= claims ======================= *)
NoDuplicates(s) == Cardinality(Range(s)) = Len(s)

\* C1: in every reachable state of every job record, every element of
\* processedIds is an element of objectIds and processedIds holds no id twice.
C1_ProcessedWithinObjects ==
  \A j \in 1..Len(db) :
    /\ Range(db[j].processedIds) \subseteq Range(db[j].objectIds)
    /\ NoDuplicates(db[j].processedIds)

\* a job with two processed ids on which a request has acted
C1_Witness ==
  \E j \in 1..Len(db) : Len(db[j].processedIds) = 2 /\ nreq > 0

Max(a, b) == IF a >= b THEN a ELSE b

ItemReturns == pc = "item" /\ last' # NoLast

InFlight == doc.objectIds[idx + 1]

HasResult(r, id) == \E k \in 1..Len(r.results) : r.results[k].objectId = id

\* C3 (as claimed): when a call made for an item signals throttling with retry
\* delay d while the job is in processing, the item loop stops and the job
\* becomes paused with pauseReason = rate_limit and resumeAfter = now + d.
C3_ThrottlePauses ==
  [][ (ItemReturns /\ db[cur].status = "processing" /\ last'.throttledBy # "none")
      => /\ pc' = "poll"
         /\ db'[cur].status = "paused"
         /\ db'[cur].pauseReason = "rate_limit"
         /\ db'[cur].resumeAfter = now + last'.retryAfter ]_vars

\* C4 (as claimed): an id whose processing was interrupted by a throttling
\* signal is absent from processedIds, failedIds and results, and the loop
\* does not go on to the next id.
C4_ThrottledIdKept ==
  [][ (ItemReturns /\ last'.throttledBy # "none")
      => /\ InFlight \notin Range(db'[cur].processedIds)
         /\ InFlight \notin Range(db'[cur].failedIds)
         /\ ~HasResult(db'[cur], InFlight)
         /\ ~(pc' = "loop" /\ idx' = idx + 1) ]_vars

\* C5 (as claimed): when processing an item raises an error that is not a
\* throttling signal, the id is added to failedIds (never twice), the job
\* keeps its status and the loop goes on to the next id.
C5_ItemErrorRecorded ==
  [][ (ItemReturns /\ last'.itemError /\ last'.throttledBy = "none")
      => /\ InFlight \in Range(db'[cur].failedIds)
         /\ NoDuplicates(db'[cur].failedIds)
         /\ db'[cur].status = db[cur].status
         /\ pc' = "loop" /\ idx' = idx + 1 ]_vars

\* C6: when the publish step of an item throws, the id is still appended to
\* processedIds together with a results entry that carries a non-empty error
\* and no publish reference, and the loop goes on to the next id.
C6_PublishFailureIsProcessed ==
  [][ (ItemReturns /\ last'.publishThrew)
      => /\ db'[cur].processedIds = Append(db[cur].processedIds, InFlight)
         /\ Len(db'[cur].results) = Len(db[cur].results) + 1
         /\ LET entry == db'[cur].results[Len(db'[cur].results)]
            IN /\ entry.objectId = InFlight
               /\ entry.error # ""
               /\ entry.shopifyProductId = ""
         /\ db'[cur].status = db[cur].status
         /\ pc' = "loop" /\ idx' = idx + 1 ]_vars

\* the publish step threw for the last item and its id is recorded as processed
C6_Witness ==
  /\ last.publishThrew
  /\ last.id \in Range(db[last.job].processedIds)
  /\ HasResult(db[last.job], last.id)

\* C7 (as claimed): after a pause request is accepted for a job in
\* processing, at most the item in flight is completed; no further id is
\* appended until the job is resumed.
C7_PauseStopsAppends ==
  \A j \in Jobs : hist[j].sincePause <= 1

\* C8 (as claimed): a status of paused or failed written by a request is not
\* overwritten by the scheduler.
C8_RequestStatusKept ==
  [][ \A j \in 1..Len(db) :
        (db[j].status \in {"paused", "failed"} /\ hist[j].statusBy = "request")
        => (db'[j].status = db[j].status \/ req' # req) ]_vars

\* C9 (as claimed): once the persisted status is completed or failed, no step
\* of the scheduler and pipeline changes any field of the record.
C9_TerminalFrozen ==
  [][ \A j \in 1..Len(db) :
        (db[j].status \in {"completed", "failed"} /\ req' = req)
        => db'[j] = db[j] ]_vars

\* C11 (as claimed): when a paused job is resumed, the item loop restarts at
\* the first id of objectIds that had not been attempted before the pause: no
\* earlier id is attempted again and no not-yet-attempted id is skipped.
C11_ResumeAtFirstUnattempted ==
  [][ (pc = "begin" /\ pc' = "loop") => idx' = hist[cur].reached ]_vars

\* C12 (as claimed): for every non-negative N, options.maxItems = N bounds
\* totalObjects and |objectIds| by N in every state after initialization.
C12_AnyMaxItemsBoundsObjects ==
  \A j \in 1..Len(db) :
    /\ db[j].totalObjects <= db[j].options.maxItems
    /\ Len(db[j].objectIds) <= db[j].options.maxItems

\* C12 (amended): for every positive N, options.maxItems = N bounds
\* totalObjects and |objectIds| by N in every state; maxItems = 0 sets no limit.
C12_PositiveMaxItemsBoundsObjects ==
  \A j \in 1..Len(db) :
    db[j].options.maxItems > 0 =>
      /\ db[j].totalObjects <= db[j].options.maxItems
      /\ Len(db[j].objectIds) <= db[j].options.maxItems

\* initialization found more ids than a positive maxItems and stored maxItems
C12_Witness ==
  /\ last.job # NoJob
  /\ db[last.job].options.maxItems > 0
  /\ last.found > db[last.job].options.maxItems
  /\ db[last.job].status = "initialized"
  /\ Len(db[last.job].objectIds) = db[last.job].options.maxItems
  /\ db[last.job].totalObjects = db[last.job].options.maxItems

\* C15: when the primary search of initialization yields zero ids, one broad
\* search is made; if that yields none either, the job is stored initialized
\* with objectIds empty and totalObjects 0, and when the scheduler processes
\* such a job its next step stores completed, no item having been attempted.
C15_EmptySearchFallsBackOnce ==
  [][ /\ (pc = "search" /\ pc' = "poll" /\ last'.primary = "empty") =>
           /\ last'.fallback # "none"
           /\ last'.fallback = "empty" =>
                /\ db'[cur].objectIds = <<>>
                /\ db'[cur].totalObjects = 0
                /\ db'[cur].status = "initialized"
      /\ (pc = "loop" /\ Len(doc.objectIds) = 0 /\ pc' # pc) =>
           /\ pc' = "poll"
           /\ db'[cur].status = "completed"
           /\ db'[cur].processedIds = <<>>
           /\ hist'[cur].reached = 0 ]_vars

\* both searches came back empty and the job was stored initialized, empty
C15_Witness ==
  /\ last.primary = "empty" /\ last.fallback = "empty"
  /\ db[last.job].status = "initialized"
  /\ db[last.job].objectIds = <<>>
  /\ db[last.job].totalObjects = 0

\* C16 (as claimed): whenever a job's status is completed, every id in
\* objectIds is a member of processedIds or of failedIds, and completedAt is
\* set.
C16_CompletedAccountsForAll ==
  \A j \in 1..Len(db) :
    db[j].status = "completed" =>
      /\ Range(db[j].objectIds) \subseteq
           Range(db[j].processedIds) \cup Range(db[j].failedIds)
      /\ db[j].completedAt # NoTime

\* C16 (amended): whenever a job's status is completed, the item loop has
\* handled every position of objectIds (the id was attempted, or passed over
\* because it was in processedIds already) and completedAt is set; an id that
\* the pipeline skipped is in neither processedIds nor failedIds.
C16_CompletedHandledAll ==
  \A j \in 1..Len(db) :
    db[j].status = "completed" =>
      /\ hist[j].reached = Len(db[j].objectIds)
      /\ db[j].completedAt # NoTime

\* a completed job one of whose ids was skipped
C16_Witness ==
  \E j \in 1..Len(db) :
    /\ db[j].status = "completed"
    /\ db[j].completedAt # NoTime
    /\ NoDuplicates(db[j].objectIds)
    /\ hist[j].reached = Len(db[j].objectIds)
    /\ Len(db[j].processedIds) < Len(db[j].objectIds)
    /\ db[j].failedIds = <<>>

\* C20 (as claimed): if the catalog search call fails during initialization,
\* the job ends in failed with error set and objectIds empty; it does not
\* become initialized.
C20_SearchFailureFailsJob ==
  [][ (pc = "search" /\ pc' = "poll" /\ last'.primary = "error") =>
        /\ db'[cur].status = "failed"
        /\ db'[cur].error # ""
        /\ db'[cur].objectIds = <<>> ]_vars

\* the statuses in which the routes accept a request of a kind
Accepted(kind, status) ==
  CASE kind = "pause"  -> status \in {"processing", "initialized"}
    [] kind = "resume" -> status = "paused"
    [] kind = "cancel" -> status \notin {"completed", "failed"}

\* C22: a handler decides on the status it read from the store; a pause is
\* accepted only for processing or initialized, a resume only for paused, a
\* cancel only for a status other than completed and failed, and an accepted
\* request writes its status; a rejected request changes no field of any
\* record.
C22_RequestsValidated ==
  [][ /\ (req.kind = "none" /\ req'.kind # "none") =>
           req'.doc.status = db[req'.job].status
      /\ (req.step = "loaded" /\ req'.step # "loaded") =>
           IF Accepted(req.kind, req.doc.status)
           THEN /\ req'.step # "rejected"
                /\ db'[req.job].status =
                     (CASE req.kind = "pause" -> "paused"
                        [] req.kind = "resume" -> "initialized"
                        [] req.kind = "cancel" -> "failed")
           ELSE /\ req'.step = "rejected"
                /\ db' = db ]_vars

\* a request was answered with a rejection
C22_Witness ==
  req.step = "rejected" /\ nreq > 0 /\ Len(db) > 0

\* C25: every change of a job's stored status is one of: pending ->
\* initializing, initializing -> initialized, pending or initializing ->
\* failed, initialized -> processing, processing -> paused, paused ->
\* initialized, processing -> completed, a status that is not terminal ->
\* failed; a job is not in processing before it has been in initialized.
C25_ListedTransitionsOnly ==
  [][ \A j \in 1..Len(db) :
        db'[j].status # db[j].status =>
          \/ db[j].status = "pending" /\ db'[j].status = "initializing"
          \/ db[j].status = "initializing" /\ db'[j].status = "initialized"
          \/ db[j].status = "initialized" /\ db'[j].status = "processing"
          \/ db[j].status = "processing" /\ db'[j].status \in {"paused", "completed"}
          \/ db[j].status = "paused" /\ db'[j].status = "initialized"
          \/ db[j].status \notin {"completed", "failed"} /\ db'[j].status = "failed" ]_vars

\* C26: a stored pauseReason is not null only while the status is paused: it
\* is null again after a user's resume, after a resume from a rate-limit
\* pause, and once the job is completed or failed.
C26_PauseReasonOnlyWhilePaused ==
  \A j \in 1..Len(db) :
    db[j].pauseReason # "null" => db[j].status = "paused"

\* C27: when the record of an id is not found or is not eligible, handling
\* that id leaves processedIds, failedIds, results and progress as they were,
\* in the document and in the store, and the loop goes on with the next
\* position.
C27_SkippedItemChangesNothing ==
  [][ (pc = "item" /\ pc' # "item"
       /\ last'.fetch \in {"not_found", "not_eligible"}) =>
        /\ \A f \in {"processedIds", "failedIds", "results", "progress"} :
             doc'[f] = doc[f] /\ db'[cur][f] = db[cur][f]
        /\ pc' = "loop" /\ cur' = cur /\ idx' = idx + 1 ]_vars

\* an id was skipped in a job that had recorded another id before it
C27_Witness ==
  /\ pc = "loop" /\ last.fetch \in {"not_found", "not_eligible"}
  /\ idx = 2 /\ Len(doc.processedIds) = 1 /\ doc.failedIds = <<>>

\* C28: the stored objectIds and totalObjects of a job change only in the
\* step that ends its initialization, from the empty list and 0, and
\* totalObjects is the length of objectIds; a job is initialized only from
\* pending and no status returns to pending, so that step happens at most
\* once per job and no item, pause, resume, cancel or failure step changes
\* either field.
C28_ObjectIdsAssignedOnce ==
  [][ \A j \in 1..Len(db) :
        /\ (db'[j].objectIds # db[j].objectIds \/ db'[j].totalObjects # db[j].totalObjects)
             => /\ pc = "search" /\ cur = j
                /\ db[j].objectIds = <<>> /\ db[j].totalObjects = 0
        /\ db'[j].totalObjects = Len(db'[j].objectIds)
        /\ (pc # "init" /\ pc' = "init" /\ cur' = j) => db[j].status = "pending"
        /\ db[j].status # "pending" => db'[j].status # "pending" ]_vars

\* a job reached completed, past a request, with the ids its initialization
\* had found
C28_Witness ==
  \E j \in 1..Len(db) :
    /\ db[j].status = "completed" /\ nreq > 0
    /\ Len(db[j].objectIds) = MaxFound /\ db[j].totalObjects = MaxFound

\* C32: while the process runs, shopify.uploadArtwork is called at most once
\* for an id of a job, whatever pause and resume requests are made and
\* however often the job is run again.
C32_PublishedAtMostOnce ==
  \A j \in Jobs : NoDuplicates(hist[j].published)

\* a job is run a second time, from a position before the one it had
\* reached, after an upload was made for one of its ids
C32_Witness ==
  /\ pc = "loop" /\ cur # NoJob /\ nreq = MaxRequests
  /\ idx < hist[cur].reached
  /\ hist[cur].published # <<>>

\* C34: in every stored state of every job record, results and processedIds
\* have the same length and results[i].objectId = processedIds[i] at every
\* position i.
C34_ResultsMatchProcessedIds ==
  \A j \in 1..Len(db) :
    /\ Len(db[j].results) = Len(db[j].processedIds)
    /\ \A i \in 1..Len(db[j].results) : db[j].results[i].objectId = db[j].processedIds[i]

\* a completed job with a result for each of two different ids
C34_Witness ==
  \E j \in 1..Len(db) :
    /\ db[j].status = "completed"
    /\ Len(db[j].results) = 2
    /\ db[j].results[1].objectId # db[j].results[2].objectId

(* ---------------- a store that holds a rate-limit pause ---------------- *)
\* The record that processJob, lines 248-250, and updateStatus write when the
\* item loop is left on a throttling signal: the first k ids processed with
\* success, status paused, pauseReason rate_limit and a resume time.
OkResult(id) == [objectId |-> id, processed |-> TRUE, error |-> "", shopifyProductId |-> ""]

PausedForRateLimit(objectIds, k, resumeAfter) ==
  LET fresh == NewJob([maxItems |-> 0, skipShopifyUpload |-> TRUE], 0)
      d == [fresh EXCEPT !.objectIds = objectIds,
                         !.totalObjects = Len(objectIds),
                         !.processedIds = SubSeqTo(objectIds, k),
                         !.results = [n \in 1..k |-> OkResult(objectIds[n])]]
  IN [d EXCEPT !.status = "paused",
               !.pauseReason = "rate_limit",
               !.resumeAfter = resumeAfter,
               !.progress = calculateProgress(d)]

\* the process starts over a store with one such record, due at MaxTime
InitStored ==
  /\ \E objectIds \in {s \in IdLists : Len(s) > 0 /\ NoDuplicates(s)} :
       \E k \in 0..(Len(objectIds) - 1) :
         db = <<PausedForRateLimit(objectIds, k, MaxTime)>>
  /\ now = 0
  /\ pc = "poll"
  /\ cur = NoJob
  /\ doc = NoDoc
  /\ idx = 0
  /\ req = NoReq
  /\ nreq = 0
  /\ last = NoLast
  /\ hist = [j \in Jobs |-> NoHist]
  /\ gov = NoGov
  /\ routeGov = NoRouteGov
  /\ filter = NoFilter
  /\ proc = Started

NextStored ==
  \/ Tick
  \/ SelectJob \/ ResumeDue \/ ProcBegin
  \/ ItemAlreadyProcessed \/ ItemBegin \/ ItemEnd \/ ProcEnd
  \/ ReqLoad \/ ReqReject \/ ReqPause \/ ReqResume \/ ReqCancel \/ ReqCancelError

SpecStored == InitStored /\ [][NextStored]_vars

OwnedBy(s) == gov.owner \in {"none", s}

GovStep == limits["shopify"].period \div 4

GovTick ==
  /\ now + GovStep <= MaxGovTime
  /\ now' = now + GovStep
  /\ UNCHANGED <<filter, gov, routeGov, proc, db, pc, cur, doc, idx, req, nreq, last, hist>>

\* history after checkRateLimit(s) answered r at time t
Checked(h, s, r, armed, t) ==
  LET open == h.windowStart # NoTime /\ t <= h.windowStart + limits[s].period
  IN IF r.ok
     THEN [NoGovHist EXCEPT !.windowStart = IF open THEN h.windowStart ELSE t,
                            !.okCount = IF open THEN h.okCount + 1 ELSE 1]
     ELSE IF armed
     THEN [h EXCEPT !.armedBy = "exhaustion", !.armedAt = t, !.armedIn = h.windowStart]
     ELSE h

\* a caller awaits checkRateLimit(s)
GovCheck ==
  /\ \E s \in CountMetered :
       LET l == gov.svc[s]
           r == checkRateLimit(l, s, now)
           armed == ~r.ok /\ ~(l.rateLimited /\ now < l.resumeAt)
       IN /\ OwnedBy(s)
          /\ gov' =
                 [owner |-> s,
                  svc  |-> [gov.svc EXCEPT ![s] = r.limit],
                  hist |-> [gov.hist EXCEPT ![s] = Checked(@, s, r, armed, now)],
                  last |-> [op |-> "check", service |-> s, at |-> now, ok |-> r.ok,
                            retryAfter |-> r.retryAfter, was |-> gov.hist[s].armedBy]]
  /\ UNCHANGED <<filter, routeGov, proc, db, now, pc, cur, doc, idx, req, nreq, last, hist>>

\* shopifyService.js line 169: the pause set when the call-limit header of an
\* error response shows the store within 5 calls of its limit
ShopifyNearLimitPause == 10000

\* a service's handleApiError handles an error response at time now: Shopify's
\* calls setRateLimited(shopify, 10000) for a call-limit header near the
\* limit, and then, as MetService's does, setRateLimited(s, retryAfter * 1000)
\* for status 429 with a Retry-After header
GovSetRateLimited ==
  /\ \E s \in CountMetered, near \in BOOLEAN, status429 \in BOOLEAN,
        retryAfter \in 1..MaxRetryAfter :
       /\ OwnedBy(s)
       /\ near \/ status429
       /\ near => s = "shopify"
       /\ LET l1 == IF near THEN setRateLimited(gov.svc[s], ShopifyNearLimitPause, now)
                    ELSE gov.svc[s]
              l2 == IF status429 THEN setRateLimited(l1, retryAfter * 1000, now) ELSE l1
              longest == IF near THEN ShopifyNearLimitPause ELSE retryAfter * 1000
          IN gov' =
              [owner |-> s,
               svc  |-> [gov.svc EXCEPT ![s] = l2],
               hist |-> [gov.hist EXCEPT ![s].armedBy = "external", ![s].armedAt = now,
                                         ![s].armedIn = gov.hist[s].windowStart,
                                         ![s].until = IF @ > now + longest THEN @
                                                      ELSE now + longest],
               last |-> [op |-> "set", service |-> s, at |-> now, ok |-> FALSE,
                         retryAfter |-> (l2.resumeAt - now) \div 1000,
                         was |-> gov.hist[s].armedBy]]
  /\ UNCHANGED <<filter, routeGov, proc, db, now, pc, cur, doc, idx, req, nreq, last, hist>>

NextGov == GovTick \/ GovCheck \/ GovSetRateLimited

SpecGov == Init /\ [][NextGov]_vars

\* a step in which checkRateLimit(s) was called and answered
CheckReturned(s) ==
  gov' # gov /\ gov'.last.op = "check" /\ gov'.last.service = s

\* successful calls so far in the window that is open at time t
UsedInWindow(h, s, t) ==
  IF h.windowStart # NoTime /\ t <= h.windowStart + limits[s].period
  THEN h.okCount ELSE 0

\* C13: for a count-metered service with budget B and window W, with no
\* throttle armed, a call succeeds as long as fewer than B calls succeeded in
\* the open window (a call that finds no open window opens one); once B calls
\* succeeded in the open window, the next call in it fails with a throttled
\* signal whose retryAfter is at most W.
C13_BudgetThenThrottle ==
  [][ \A s \in CountMetered :
        CheckReturned(s) =>
          LET h == gov.hist[s]
              used == UsedInWindow(h, s, now)
          IN /\ (h.armedBy = "none" /\ used < limits[s].requests) => gov'.last.ok
             /\ (h.armedBy # "external" /\ used >= limits[s].requests) =>
                  /\ ~gov'.last.ok
                  /\ gov'.last.retryAfter * 1000 <= limits[s].period ]_vars

\* the call after budget-many successful calls in one window was refused
C13_Witness ==
  /\ gov.last.op = "check" /\ ~gov.last.ok /\ gov.last.was = "none"
  /\ gov.hist[gov.last.service].okCount = limits[gov.last.service].requests
  /\ gov.hist[gov.last.service].armedBy = "exhaustion"
  /\ gov.last.at <= gov.hist[gov.last.service].windowStart + limits[gov.last.service].period

\* C14 (as claimed): a throttle armed by budget exhaustion lasts only for the
\* remainder of the window in which the budget was exhausted: any call made
\* after that window has elapsed succeeds.
C14_ThrottleEndsWithWindow ==
  [][ \A s \in CountMetered :
        (/\ CheckReturned(s)
         /\ gov.hist[s].armedBy = "exhaustion"
         /\ now > gov.hist[s].armedIn + limits[s].period)
        => gov'.last.ok ]_vars

\* C14 (amended): a throttle armed by budget exhaustion lasts one window
\* length W from the call that armed it: a call made less than W after that
\* call fails, a call made more than W after it succeeds.
C14_ThrottleLastsOnePeriod ==
  [][ \A s \in CountMetered :
        (CheckReturned(s) /\ gov.hist[s].armedBy = "exhaustion") =>
          /\ now < gov.hist[s].armedAt + limits[s].period => ~gov'.last.ok
          /\ now > gov.hist[s].armedAt + limits[s].period => gov'.last.ok ]_vars

\* a call succeeded after a throttle that budget exhaustion had armed
C14_Witness ==
  /\ gov.last.op = "check" /\ gov.last.ok /\ gov.last.was = "exhaustion"

\* C23: after setRateLimited(s, d) was called at time t, every
\* checkRateLimit(s) made before t + d fails, with a retryAfter that is the
\* remaining time in whole seconds, and leaves the window counter of s as it
\* was, whatever budget remains.
C23_ThrottledUntilDurationEnds ==
  [][ \A s \in CountMetered :
        (/\ CheckReturned(s)
         /\ gov.hist[s].until # NoTime
         /\ now < gov.hist[s].until)
        => /\ ~gov'.last.ok
           /\ gov'.last.retryAfter = CeilSeconds(gov.hist[s].until - now)
           /\ gov'.svc[s].current = gov.svc[s].current
           /\ gov'.svc[s].resetAt = gov.svc[s].resetAt ]_vars

\* C35: after checkRateLimit(s) armed the throttle on an exhausted budget
\* with resume time r (the time of that call plus one period), the first
\* checkRateLimit(s) at a time t >= r, t = r included, succeeds: the flag is
\* cleared, a new window starts at t and the counter is 1.
C35_FirstCallAtResumeTimeSucceeds ==
  [][ \A s \in CountMetered :
        (/\ CheckReturned(s)
         /\ gov.hist[s].armedBy = "exhaustion"
         /\ gov.svc[s].rateLimited
         /\ now >= gov.svc[s].resumeAt)
        => /\ gov'.last.ok
           /\ ~gov'.svc[s].rateLimited
           /\ gov'.svc[s].resetAt = now + limits[s].period
           /\ gov'.svc[s].current = 1 ]_vars

\* C36: for the count-metered services the window counter stays between 0
\* and the capacity, whatever calls of checkRateLimit and setRateLimited are
\* made and however time passes.
C36_CounterWithinCapacity ==
  \A s \in CountMetered :
    gov.svc[s].current >= 0 /\ gov.svc[s].current <= limits[s].requests

\* a call was refused on a counter that stands at the capacity, after the
\* throttle had been set from outside and a window had been reset
C36_Witness ==
  /\ gov.last.op = "check" /\ ~gov.last.ok
  /\ gov.last.was = "external"
  /\ gov.svc[gov.last.service].current = limits[gov.last.service].requests
  /\ gov.last.at > limits[gov.last.service].period

(* ============ the Met API called from the scheduler and the routes ============ *)
\* jobProcessor.js line 9 and metRoutes.js line 7 each construct a MetService,
\* and each MetService constructs its RateLimitManager (metService.js line
\* 17): gov is the manager of the scheduler's MetService, routeGov.met the
\* entry of the routes' one. Time passes in milliseconds.

\* history after a checkRateLimit(met) of either manager answered ok at time t
CountedOk(g, ok, t) ==
  LET open == g.windowStart # NoTime /\ t <= g.windowStart + limits["met"].period
  IN IF ~ok THEN g
     ELSE [g EXCEPT !.windowStart = IF open THEN @ ELSE t,
                    !.okCount = IF open THEN @ + 1 ELSE 1]

\* the scheduler's MetService awaits checkRateLimits() before a request
\* (searchObjects, getObjectDetails)
PipelineCheckMet ==
  /\ LET l == gov.svc["met"]
         r == checkRateLimit(l, "met", now)
         armed == ~r.ok /\ ~(l.rateLimited /\ now < l.resumeAt)
     IN /\ gov' =
               [owner |-> "met",
                svc  |-> [gov.svc EXCEPT !["met"] = r.limit],
                hist |-> [gov.hist EXCEPT !["met"] = Checked(@, "met", r, armed, now)],
                last |-> [op |-> "check", service |-> "met", at |-> now, ok |-> r.ok,
                          retryAfter |-> r.retryAfter, was |-> gov.hist["met"].armedBy]]
        /\ routeGov' = CountedOk(routeGov, r.ok, now)
  /\ UNCHANGED <<filter, proc, db, now, pc, cur, doc, idx, req, nreq, last, hist>>

\* GET /artwork/:id and POST /categorize of metRoutes.js call
\* getObjectDetails of the routes' MetService, which awaits checkRateLimits()
RouteCheckMet ==
  /\ LET r == checkRateLimit(routeGov.met, "met", now)
     IN routeGov' = [CountedOk(routeGov, r.ok, now) EXCEPT !.met = r.limit]
  /\ UNCHANGED <<filter, gov, proc, db, now, pc, cur, doc, idx, req, nreq, last, hist>>

NextShared == Tick \/ PipelineCheckMet \/ RouteCheckMet

SpecShared == Init /\ [][NextShared]_vars

\* C24: over all callers in the process, the checkRateLimit(met) calls that
\* succeed within one window never exceed the Met API's capacity.
C24_OneBudgetPerService ==
  routeGov.okCount <= limits["met"].requests

(* ======================= several jobs in the store ======================= *)
\* The scheduler over a store that receives NumQueued jobs, created at any
\* instants while it runs; the jobs are submitted with the largest maxItems
\* and without the upload to the storefront.
QueuedOptions == {o \in Options : o.skipShopifyUpload /\ o.maxItems = MaxItemsOpt}

InitQueue ==
  /\ db = <<>>
  /\ now = 0
  /\ pc = "poll"
  /\ cur = NoJob
  /\ doc = NoDoc
  /\ idx = 0
  /\ req = NoReq
  /\ nreq = 0
  /\ last = NoLast
  /\ hist = [j \in 1..NumQueued |-> NoHist]
  /\ gov = NoGov
  /\ routeGov = NoRouteGov
  /\ filter = NoFilter
  /\ proc = Started

CreateQueued ==
  /\ Len(db) < NumQueued
  /\ \E opts \in QueuedOptions : db' = Append(db, NewJob(opts, now))
  /\ UNCHANGED <<filter, gov, routeGov, proc, now, pc, cur, doc, idx, req, nreq, last, hist>>

\* a request that is made while several jobs are in the store
ReqLoadQueued ==
  /\ req.kind = "none"
  /\ nreq < MaxQueueRequests
  /\ nreq' = nreq + 1
  /\ \E kind \in {"pause", "resume", "cancel"}, j \in 1..Len(db) :
       req' = [kind |-> kind, job |-> j, doc |-> Loaded(db[j]), step |-> "loaded"]
  /\ UNCHANGED <<filter, gov, routeGov, proc, db, now, pc, cur, doc, idx, last, hist>>

\* ReqResume is left out: it needs a pause request before it, and
\* MaxQueueRequests allows one request; so is ItemAlreadyProcessed, which
\* needs a job that is processed a second time or a repeated id

NextQueue ==
  \/ Tick \/ CreateQueued
  \/ SelectJob \/ InitBegin \/ InitSearch \/ ProcBegin
  \/ ItemBegin \/ ItemEnd \/ ProcEnd
  \/ ReqLoadQueued \/ ReqReject \/ ReqPause \/ ReqCancel \/ ReqCancelError

SpecQueue == InitQueue /\ [][NextQueue]_vars

\* the statuses from which the scheduler may take a job, as specified
MaySelect(r, t) ==
  \/ r.status \in {"pending", "initialized"}
  \/ r.status = "paused" /\ r.pauseReason = "rate_limit" /\ r.resumeAfter <= t

\* C17: a scheduler iteration selects at most one job; the job it selects is
\* pending, initialized or paused for rate_limit with resumeAfter <= now, and
\* no job that is eligible at selection was created earlier; while it holds a
\* job the scheduler writes to no other record.
C17_SelectsEarliestEligible ==
  [][ /\ (pc = "poll" /\ cur' # NoJob) =>
           /\ MaySelect(db[cur'], now)
           /\ db[cur'].status \notin {"processing", "completed", "failed"}
           /\ ~(db[cur'].status = "paused" /\ db[cur'].pauseReason = "user")
           /\ \A k \in 1..Len(db) :
                MaySelect(db[k], now) => db[cur'].createdAt <= db[k].createdAt
      /\ \A j \in 1..Len(db) :
           (db'[j] # db[j] /\ req' = req /\ Len(db') = Len(db)) => j = cur ]_vars

\* two jobs were eligible, created at different instants, and the scheduler
\* holds the one created first
C17_Witness ==
  /\ Len(db) = 2
  /\ cur = 1
  /\ pc \in {"init", "begin"}
  /\ db[1].createdAt < db[2].createdAt
  /\ MaySelect(db[1], now) /\ MaySelect(db[2], now)

(* ======================= saves that fail ======================= *)
\* The scheduler over a database whose save() may reject (connection lost,
\* validation error).  No request is made here, so the steps between a
\* rejected save and the end of its handling are taken as one step.

\* the document as a catch block leaves it: lines 204-205, 274-275, 68-69
Failed(d) == [d EXCEPT !.status = "failed", !.error = "save failed"]

\* An exception leaves the try block of initializeJob or processJob with
\* document m in memory.  The function's catch sets failed and saves (line
\* 207 or 277); if that save rejects too, the exception reaches the catch of
\* processJobs, which sets failed and saves again (lines 68-70); if that save
\* rejects as well, the exception leaves processJobs and its loop is over.
\* saved tells whether one of the two saves went through.
Thrown(m, saved) ==
  IF saved
  THEN /\ db' = [db EXCEPT ![cur] = Saved(@, Failed(m), doc)]
       /\ hist' = Wrote(cur, "scheduler", Failed(m), doc)
       /\ pc' = "poll"
       /\ cur' = NoJob
       /\ doc' = NoDoc
       /\ idx' = 0
       /\ proc' = proc
  ELSE /\ pc' = "stopped"
       /\ doc' = Failed(m)
       /\ proc' = [proc EXCEPT !.loops = <<"ended">>]
       /\ UNCHANGED <<db, hist, cur, idx>>

\* initializeJob, line 101: the save of status processing rejects
InitBeginSaveFails ==
  /\ pc = "init"
  /\ \E saved \in BOOLEAN : Thrown([doc EXCEPT !.status = "processing"], saved)
  /\ UNCHANGED <<filter, gov, routeGov, now, req, nreq, last>>

\* initializeJob, line 200: the save of objectIds and initialized rejects
InitSearchSaveFails ==
  /\ pc = "search"
  /\ \E primary \in SearchAnswers, fallback \in SearchAnswers, saved \in BOOLEAN :
       LET found == findObjectIds(primary, fallback)
           objectIds == limitItems(found.objectIds, doc.options.maxItems)
           d == [doc EXCEPT !.objectIds = objectIds,
                            !.totalObjects = Len(objectIds),
                            !.status = "initialized"]
       IN /\ Thrown(d, saved)
          /\ last' = [NoLast EXCEPT !.job = cur, !.primary = AnswerKind(primary),
                                    !.fallback = found.fallback,
                                    !.found = Len(found.objectIds)]
  /\ UNCHANGED <<filter, gov, routeGov, now, req, nreq>>

\* processJob, line 215: the save of status processing rejects
ProcBeginSaveFails ==
  /\ pc = "begin"
  /\ \E saved \in BOOLEAN : Thrown([doc EXCEPT !.status = "processing"], saved)
  /\ UNCHANGED <<filter, gov, routeGov, now, req, nreq, last>>

\* processJob, line 240: the save after a result was pushed rejects.  The
\* inner catch (lines 242-261) pushes the id to failedIds and saves; when
\* that save goes through the loop continues, otherwise the exception leaves
\* the loop.  The id is not in failedIds before (ItemNotYetFailed).
ItemEndSaveFails ==
  /\ pc = "item"
  /\ doc.objectIds[idx + 1] \notin Range(doc.failedIds)
  /\ \E env \in PipelineEnv, outcome \in {"continue", "saved", "lost"} :
       LET objectId == doc.objectIds[idx + 1]
           result == processArtwork(objectId, doc.options, env)
           m == [Recorded(doc, objectId, result) EXCEPT !.failedIds = Append(@, objectId)]
       IN /\ ~result.isNull
          /\ last' = Observed(cur, objectId, doc.options, env)
          /\ IF outcome = "continue"
             THEN /\ db' = [db EXCEPT ![cur] = Saved(@, m, doc)]
                  /\ doc' = m
                  /\ idx' = idx + 1
                  /\ pc' = "loop"
                  /\ UNCHANGED <<cur, hist, proc>>
             ELSE Thrown(m, outcome = "saved")
  /\ UNCHANGED <<filter, gov, routeGov, now, req, nreq>>

\* processJob, line 270: the save of status completed rejects
ProcEndSaveFails ==
  /\ pc = "loop"
  /\ idx >= Len(doc.objectIds)
  /\ \E saved \in BOOLEAN :
       Thrown([doc EXCEPT !.status = "completed", !.completedAt = now], saved)
  /\ last' = NoLast
  /\ UNCHANGED <<filter, gov, routeGov, now, req, nreq>>

NextFail ==
  \/ Tick \/ CreateJob
  \/ SelectJob \/ InitBegin \/ InitSearch \/ ProcBegin
  \/ ItemAlreadyProcessed \/ ItemBegin \/ ItemEnd \/ ProcEnd
  \/ InitBeginSaveFails \/ InitSearchSaveFails \/ ProcBeginSaveFails
  \/ ItemEndSaveFails \/ ProcEndSaveFails

SpecFail == Init /\ [][NextFail]_vars

\* the inner catch of processJob never finds the id in failedIds already
ItemNotYetFailed ==
  pc = "item" => doc.objectIds[idx + 1] \notin Range(doc.failedIds)

\* C18 (as claimed): the scheduler loop is never stopped by an error: after
\* any exception raised while it acts on a job, a failure to persist the
\* record included, the loop goes on to a later iteration.
C18_LoopSurvivesErrors ==
  pc # "stopped"

\* C30: when an exception leaves the item loop of a job, the stored status of
\* the job becomes failed and its error the text of the exception, and the
\* processedIds and results stored before the exception are still in the
\* record.
C30_EscapedExceptionFailsJob ==
  [][ (pc = "item" /\ pc' \notin {"item", "loop"}) =>
        /\ db'[cur].status = "failed"
        /\ db'[cur].error = "save failed"
        /\ SubSeqTo(db'[cur].processedIds, Len(db[cur].processedIds)) = db[cur].processedIds
        /\ SubSeqTo(db'[cur].results, Len(db[cur].results)) = db[cur].results ]_vars

(* ======================= start() and stop() ======================= *)
\* A JobProcessor whose start() and stop() are called at any moment.  A
\* processJobs call is at getNextJob (awaiting Job.find), at sleep (no job
\* was found, or the catch ran), at job (awaiting initializeJob or
\* processJob) or ended; it tests this.isRunning between two iterations only.
InitLoop ==
  /\ db = <<>>
  /\ now = 0
  /\ pc = "poll"
  /\ cur = NoJob
  /\ doc = NoDoc
  /\ idx = 0
  /\ req = NoReq
  /\ nreq = 0
  /\ last = NoLast
  /\ hist = [j \in Jobs |-> NoHist]
  /\ gov = NoGov
  /\ routeGov = NoRouteGov
  /\ filter = NoFilter
  /\ proc = Constructed

\* start(), lines 19-21: isRunning is set and processJobs is called, not
\* awaited; it runs up to its first await
StartLoop ==
  /\ proc.calls < MaxStartCalls
  /\ ~proc.isRunning
  /\ proc' = [isRunning |-> TRUE, loops |-> Append(proc.loops, "getNextJob"),
              calls |-> proc.calls + 1]
  /\ UNCHANGED <<filter, gov, routeGov, db, now, pc, cur, doc, idx, req, nreq, last, hist>>

\* start(), lines 14-17: the processor is running already, start returns
StartWhileRunning ==
  /\ proc.calls < MaxStartCalls
  /\ proc.isRunning
  /\ proc' = [proc EXCEPT !.calls = @ + 1]
  /\ UNCHANGED <<filter, gov, routeGov, db, now, pc, cur, doc, idx, req, nreq, last, hist>>

\* stop(), lines 24-27
Stop ==
  /\ proc.isRunning
  /\ proc' = [proc EXCEPT !.isRunning = FALSE]
  /\ UNCHANGED <<filter, gov, routeGov, db, now, pc, cur, doc, idx, req, nreq, last, hist>>

\* processJobs, lines 33-42: getNextJob answers, with a job or with none
LoopGotAnswer ==
  /\ \E l \in 1..Len(proc.loops), answer \in {"sleep", "job"} :
       /\ proc.loops[l] = "getNextJob"
       /\ proc' = [proc EXCEPT !.loops[l] = answer]
  /\ UNCHANGED <<filter, gov, routeGov, db, now, pc, cur, doc, idx, req, nreq, last, hist>>

\* processJobs, line 30: an iteration is over and while (this.isRunning) is
\* tested
LoopIterationEnds ==
  /\ \E l \in 1..Len(proc.loops) :
       /\ proc.loops[l] \in {"sleep", "job"}
       /\ proc' = [proc EXCEPT !.loops[l] = IF proc.isRunning THEN "getNextJob" ELSE "ended"]
  /\ UNCHANGED <<filter, gov, routeGov, db, now, pc, cur, doc, idx, req, nreq, last, hist>>

NextLoop == StartLoop \/ StartWhileRunning \/ Stop \/ LoopGotAnswer \/ LoopIterationEnds

SpecLoop == InitLoop /\ [][NextLoop]_vars

ActiveLoops == {l \in 1..Len(proc.loops) : proc.loops[l] # "ended"}

\* C19 (as claimed): for any sequence of start() and stop() calls, at most one
\* control loop is active and at most one job is being advanced at any
\* moment.
C19_SingleLoop ==
  /\ Cardinality(ActiveLoops) <= 1
  /\ Cardinality({l \in 1..Len(proc.loops) : proc.loops[l] = "job"}) <= 1

(* ======================= a process that restarts ======================= *)
\* The process may die at any point of the scheduler's work and be started
\* again (server.js): the store is kept, everything in memory is new.  No
\* request is made.
Restart ==
  /\ pc # "poll"
  /\ pc' = "poll"
  /\ cur' = NoJob
  /\ doc' = NoDoc
  /\ idx' = 0
  /\ last' = NoLast
  /\ req' = NoReq
  /\ gov' = NoGov
  /\ routeGov' = NoRouteGov
  /\ filter' = NoFilter
  /\ proc' = Started
  /\ UNCHANGED <<db, now, nreq, hist>>

NextRestart ==
  \/ Tick \/ CreateJob
  \/ SelectJob \/ InitBegin \/ InitSearch \/ ProcBegin
  \/ ItemAlreadyProcessed \/ ItemBegin \/ ItemEnd \/ ProcEnd
  \/ Restart

SpecRestart == Init /\ [][NextRestart]_vars

\* C21 (as claimed): a job whose persisted status is processing when the
\* process restarts is selected by the restarted scheduler without any user
\* request: while no scheduler holds it, it is among the records getNextJob
\* finds.
C21_ProcessingIsSelectedAgain ==
  \A j \in 1..Len(db) :
    (db[j].status = "processing" /\ cur # j) => Eligible(db[j], now)


(* ================= the order of the ids of one job ================= *)
\* A job whose initialization found NumOrdered distinct ids, with no maxItems
\* limit, stands in the store as initialized; the scheduler runs it while
\* pause, resume and cancel requests arrive.
OrderedIds == [i \in 1..NumOrdered |-> i]

InitOrder ==
  /\ \E o \in {x \in Options : x.maxItems = 0} :
       db = << [NewJob(o, 0) EXCEPT !.status = "initialized",
                                    !.objectIds = OrderedIds,
                                    !.totalObjects = NumOrdered] >>
  /\ now = 0
  /\ pc = "poll"
  /\ cur = NoJob
  /\ doc = NoDoc
  /\ idx = 0
  /\ req = NoReq
  /\ nreq = 0
  /\ last = NoLast
  /\ hist = [j \in Jobs |-> IF j = 1 THEN [NoHist EXCEPT !.statusBy = "scheduler"]
                            ELSE NoHist]
  /\ gov = NoGov
  /\ routeGov = NoRouteGov
  /\ filter = NoFilter
  /\ proc = Started

NextOrder ==
  \/ Tick
  \/ SelectJob \/ ProcBegin
  \/ ItemAlreadyProcessed \/ ItemBegin \/ ItemEnd \/ ProcEnd
  \/ ReqLoad \/ ReqReject \/ ReqPause \/ ReqResume \/ ReqCancel \/ ReqCancelError

SpecOrder == InitOrder /\ [][NextOrder]_vars

\* s can be obtained from t by deleting elements
RECURSIVE IsSubsequence(_, _)
IsSubsequence(s, t) ==
  IF s = <<>> THEN TRUE
  ELSE IF t = <<>> THEN FALSE
  ELSE IF Head(s) = Head(t) THEN IsSubsequence(Tail(s), Tail(t))
  ELSE IsSubsequence(s, Tail(t))

\* C29: the ids of a job are attempted in the order of objectIds, so the
\* stored processedIds is at all times a subsequence of objectIds that keeps
\* their order, also across pause and resume.
C29_ProcessedIdsInObjectIdsOrder ==
  \A j \in 1..Len(db) : IsSubsequence(db[j].processedIds, db[j].objectIds)


(* ================= metService.js: postFilterResults ================= *)
\* line 103: const batchSize = 20
batchSize == 20

\* line 205: filteredIds.length / initialBatch.length > 0.3, in tenths
matchRateTenths == 3

\* line 210: Math.min(remainingIds.length, 80)
maxAdditional == 80

Min(a, b) == IF a < b THEN a ELSE b

\* line 104: initialBatch = objectIds.slice(0, Math.min(batchSize, length))
initialBatch(n) == Min(batchSize, n)

\* line 88: searchObjects hands the ids the search found to postFilterResults
FilterCalled ==
  /\ filter.pc = "none"
  /\ \E n \in 0..MaxCandidates :
       filter' = [NoFilter EXCEPT !.pc = "batch", !.n = n]
  /\ UNCHANGED <<gov, routeGov, proc, db, now, pc, cur, doc, idx, req, nreq, last, hist>>

\* lines 107-195, one pass of the loop over initialBatch: the details of the
\* candidate are fetched; it is pushed when it is found, eligible and matches
\* the filters, and passed over otherwise (an exception is caught and logged)
FilterExamine ==
  /\ filter.pc = "batch"
  /\ filter.i < initialBatch(filter.n)
  /\ \E matches \in BOOLEAN :
       filter' = [filter EXCEPT !.i = @ + 1,
                                !.matched = IF matches THEN @ + 1 ELSE @,
                                !.lastPushed = IF matches THEN filter.i + 1 ELSE @]
  /\ UNCHANGED <<gov, routeGov, proc, db, now, pc, cur, doc, idx, req, nreq, last, hist>>

\* lines 198-200: after the loop over initialBatch the method returns
\* filteredIds and ends; the statements of lines 202-287 stand after its
\* closing brace and are not part of it
FilterReturn ==
  /\ filter.pc = "batch"
  /\ filter.i = initialBatch(filter.n)
  /\ filter' = [filter EXCEPT !.pc = "returned"]
  /\ UNCHANGED <<gov, routeGov, proc, db, now, pc, cur, doc, idx, req, nreq, last, hist>>

NextFilter == FilterCalled \/ FilterExamine \/ FilterReturn

SpecFilter == Init /\ [][NextFilter]_vars

\* C31: post-hoc filtering examines a first batch of at most 20 candidates;
\* it goes on to the remaining candidates only if more than 30% of that batch
\* matched, and then examines at most 80 more: when it has returned, it has
\* examined the first batch, and the remaining candidates up to 80 exactly
\* when more than 30% of the batch matched, never more than 100 in all, and
\* the ids it returns were pushed in the order of the candidates.
C31_FilterExaminesInTwoStages ==
  filter.pc = "returned" =>
    LET batch == initialBatch(filter.n)
        goesOn == /\ filter.n > batchSize
                  /\ filter.matched * 10 > matchRateTenths * batch
    IN /\ filter.i = IF goesOn THEN batch + Min(filter.n - batchSize, maxAdditional)
                     ELSE batch
       /\ filter.i <= batchSize + maxAdditional
       /\ filter.matched <= filter.lastPushed /\ filter.lastPushed <= filter.i


(* ================= the scheduler left to itself ================= *)
\* NumQueued jobs are submitted at any instants, with any maxItems and without
\* the upload to the storefront; no pause, resume or cancel request is made, every external call returns and every
\* save succeeds.  The loop of processJobs keeps running (isRunning stays
\* true and every await returns), so a step of the scheduler that can be
\* taken is taken: weak fairness of SchedulerStep.
SubmittedOptions == {o \in Options : o.skipShopifyUpload}

CreateSubmitted ==
  /\ Len(db) < NumQueued
  /\ \E opts \in SubmittedOptions : db' = Append(db, NewJob(opts, now))
  /\ UNCHANGED <<filter, gov, routeGov, proc, now, pc, cur, doc, idx, req, nreq, last, hist>>

NextLive ==
  \/ Tick \/ CreateSubmitted
  \/ SelectJob \/ InitBegin \/ InitSearch \/ ProcBegin
  \/ ItemAlreadyProcessed \/ ItemBegin \/ ItemEnd \/ ProcEnd

SpecLive == InitQueue /\ [][NextLive]_vars /\ WF_vars(SchedulerStep)

\* C33: when every external call returns, every save succeeds and no pause
\* or cancel request is made, every job that is created eventually reaches
\* completed or failed.
C33_EveryJobTerminates ==
  \A j \in 1..NumQueued :
    [](Len(db) >= j => <>(Len(db) >= j /\ db[j].status \in {"completed", "failed"}))

\* all the jobs submitted have reached completed, one of them with ids
\* processed
C33_Witness ==
  /\ Len(db) = NumQueued
  /\ \A j \in 1..Len(db) : db[j].status = "completed"
  /\ \E j \in 1..Len(db) : db[j].processedIds # <<>>
  /\ db[1].createdAt < db[NumQueued].createdAt

====
